---- MODULE Spec2Model ----
(***************************************************************************)
(* gitpy: a content-addressed object store, a staging index, references    *)
(* and the add / commit / checkout / status operations over a working      *)
(* tree (src/src/data.py, src/src/base.py, src/src/cli.py).                *)
(*                                                                         *)
(* Abstractions.                                                           *)
(*  - File contents are the numbers in Contents.                           *)
(*  - SHA-1 is an injective function of (type, payload).  The id of a      *)
(*    blob with content c is the number c; the id of a tree or a commit    *)
(*    is above these, k counting the distinct tree/commit payloads in      *)
(*    the order they were first hashed, so equal payloads get equal ids    *)
(*    and different payloads different ids.                                *)
(*  - A text string (reference file name, reference file content, a line   *)
(*    of a commit) is a record: pre is the "ref: " prefix or "", sp the    *)
(*    number of spaces that follow, then the body, which is a path         *)
(*    dir/base or the first n hex digits of object id oid (all 40 of      *)
(*    them in an id the program computed; n = 41 is the 40 digits and     *)
(*    one digit more), and nl is a trailing newline.                       *)
(*  - Two object ids of one behaviour differ in their first two hex       *)
(*    digits; find_object, where shared prefixes matter, is modelled      *)
(*    digit by digit further down.                                         *)
(*  - The stat() fields of an index entry other than the mode are left     *)
(*    out; no operation reads them back.                                   *)
(***************************************************************************)
EXTENDS Integers, Sequences, FiniteSets, TLC

\* ------------------------------------------------------------------ bounds
\* commit calls in a behaviour of Spec and of SpecStatus
MaxCommits == 1
\* commit calls in a behaviour of SpecRefs
MaxRefCommits == 3
\* tree objects stored in a behaviour of SpecTrees
MaxTrees == 3
\* different byte strings hashed in a behaviour of SpecStore and of SpecFind
MaxObjects == 2

\* ------------------------------------------------------- program constants
\* st_mode of a regular file created by open(path, "wb") under umask 022
REG_MODE == 33188
\* stat.S_IFDIR, the file-type bits of a directory's st_mode
S_IFDIR == 16384

\* a file of the working tree in whose path re.search finds ".gitpie"
IgnoredFile == "d/.gitpie"
\* the file whose existence is_ignored tests
GitIgnoreFile == ".gitignore"
\* the files of the working tree, in ascending order of their path strings
AllPaths == <<GitIgnoreFile, "a", IgnoredFile, "d/b">>
Paths == {AllPaths[i] : i \in 1..Len(AllPaths)}
Dirs == {"d"}
Contents == {1, 2}
Times == {1}
\* commit messages, each the sequence of its lines
Messages == {<<"m">>}
Branches == {"dev"}

\* position of a path in the ascending order of path strings
PathRank(p) == CHOOSE i \in 1..Len(AllPaths) : AllPaths[i] = p

\* os.path.dirname of a working-tree path ("" for the top directory)
DirOf(p) == IF p \in {"d/b", IgnoredFile} THEN "d" ELSE ""

\* ------------------------------------------------------------------ strings
NoStr == [pre |-> "", sp |-> 0, dir |-> "", base |-> "", oid |-> 0, n |-> 0, nl |-> FALSE]
RefName(dir, base) == [NoStr EXCEPT !.dir = dir, !.base = base]
\* the first n hex digits of object id oid
HexN(oid, n) == [NoStr EXCEPT !.oid = oid, !.n = n]
\* sha1.hexdigest(): the 40 hex digits of an object id
Hex(oid) == HexN(oid, 40)
Text(t) == [NoStr EXCEPT !.base = t]

\* str.strip(): leading and trailing whitespace removed
strip(s) == [s EXCEPT !.nl = FALSE, !.sp = IF s.pre = "" THEN 0 ELSE s.sp]

\* os.path.join(a, b) for relative paths
JoinDir(a, b) == IF b = "" THEN a ELSE IF a = "" THEN b ELSE a \o "/" \o b
join(dir, s) == [s EXCEPT !.dir = JoinDir(dir, s.dir)]

\* all(c in string.hexdigits for c in s): the body is hex digits only
IsHex(s) == s.pre = "" /\ s.sp = 0 /\ s.dir = "" /\ s.base = "" /\ ~s.nl /\ s.oid > 0

\* bool(s) of a str
Truthy(s) == s # NoStr

GIT_DIR == ".gitpie"
HEAD == RefName("", "HEAD")
MASTER == RefName("refs/heads", "master")

\* ------------------------------------------------------------------- state
VARIABLES
    wt,       \* working tree: path -> content, 0 when the file is absent
    wdirs,    \* the sub-directories of the working tree that exist
    index,    \* the entries stored in .gitpie/index (<<>> when absent)
    objects,  \* object store: object id -> stored object
    refs,     \* plain files directly under .gitpie/ and .gitpie/refs: name -> content
    ncommits, \* number of commit calls so far
    last      \* the last call: operation, arguments, outcome

\* The object files and the index file as the bytes the program writes
\* and parses.
VARIABLES
    store,    \* .gitpie/objects: hex id -> the content of the object file
    digests,  \* the SHA-1 values computed so far: hashed bytes -> hex id
    ifile,    \* .gitpie/index, [exists, data, digest]
    call      \* the last call on the bytes: operation, arguments, outcome

\* Two invocations of add running at the same time, each between its calls
\* on the files of the repository.
VARIABLES
    adds      \* invocation -> [pc, files, entries]: where it stands in add,
              \* its filepaths, and its local list entries

repo_vars == <<wt, wdirs, index, objects, refs, ncommits, last>>
byte_vars == <<store, digests, ifile, call>>
vars == <<wt, wdirs, index, objects, refs, ncommits, last, store, digests, ifile, call, adds>>

\* ------------------------------------------------------------ object store
\* A stored object: its type and its payload.  A blob's payload is content,
\* a tree's payload is its records (entries), a commit's payload its lines.
Blob(c) == [type |-> "blob", content |-> c, entries |-> <<>>, lines |-> <<>>]
Tree(es) == [type |-> "tree", content |-> 0, entries |-> es, lines |-> <<>>]
CommitObj(ls) == [type |-> "commit", content |-> 0, entries |-> <<>>, lines |-> ls]

\* one line of a commit payload: its first word, the rest, and a timestamp
Line(key, s, t) == [key |-> key, s |-> s, t |-> t]

\* hashlib.sha1(header + NUL + data).hexdigest()
sha1(objs, o) ==
    IF o.type = "blob" THEN o.content
    ELSE IF \E i \in DOMAIN objs : objs[i] = o
         THEN CHOOSE i \in DOMAIN objs : objs[i] = o
         ELSE Cardinality(Contents) + Cardinality(DOMAIN objs \ Contents) + 1

\* a hash_object that computes the id and stores nothing
hash_object_not_written(objs, o, write) == objs

\* hash_object(data, obj_type, write): the object store afterwards
hash_object(objs, o, write) ==
    LET id == sha1(objs, o)
    IN IF write /\ id \notin DOMAIN objs THEN objs @@ (id :> o) ELSE objs

\* find_object followed by the decoding of read_object: [err, obj]
read_object(objs, s) ==
    IF IsHex(s) /\ 2 <= s.n /\ s.n <= 40 /\ s.oid \in DOMAIN objs
    THEN [err |-> "", obj |-> objs[s.oid]]
    ELSE [err |-> "NotFound", obj |-> Blob(0)]

\* ---------------------------------------------------------------- index
IndexEntry(mode, sha, flags, path) ==
    [mode |-> mode, sha1 |-> sha, flags |-> flags, path |-> path]

\* read_index / write_index: the entries are stored and read back in order
read_index(idx) == idx
write_index(entries) == entries

RECURSIVE SortFrom(_, _)
SortFrom(s, i) ==
    IF i > Len(AllPaths) THEN <<>>
    ELSE SelectSeq(s, LAMBDA e : e.path = AllPaths[i]) \o SortFrom(s, i + 1)

\* entries.sort(key=operator.attrgetter("path")): a stable sort by path
SortByPath(s) == SortFrom(s, 1)

\* ------------------------------------------------------------- references
\* directories made by init under .gitpie
GitDirs == {"objects", "refs", "refs/heads"}

RECURSIVE get_local_master_hash(_, _, _)
get_local_master_hash(rf, ref, deref) ==
    IF ref \notin DOMAIN rf THEN ref
    ELSE LET head_pointer == strip(rf[ref])
         IN IF head_pointer.pre = "ref: "
            THEN IF deref
                 THEN get_local_master_hash(rf, [head_pointer EXCEPT !.pre = ""], TRUE)
                 ELSE [head_pointer EXCEPT !.pre = "", !.sp = @ + 1]
            ELSE head_pointer

\* open(os.path.join(GIT_DIR, ref), "wb") finds the directory of the file
CanWrite(ref) == ref.dir = "" \/ (ref.sp = 0 /\ ref.dir \in GitDirs)

\* update_ref(ref, value, deref): [err, refs afterwards]
update_ref(rf, ref, value, deref) ==
    LET target == get_local_master_hash(rf, ref, deref)
    IN IF ~Truthy(value) THEN [err |-> "AssertionError", refs |-> rf]
       ELSE IF ~CanWrite(target) THEN [err |-> "FileNotFoundError", refs |-> rf]
       ELSE [err |-> "",
             refs |-> [r \in DOMAIN rf \cup {target} |->
                          IF r = target THEN value ELSE rf[r]]]

\* ------------------------------------------------------------ working tree
\* a test that ignores the directory .gitpie and no other path
is_ignored_git_dir_only(p) == p = GIT_DIR

\* a test that ignores no path
is_ignored_never(p) == FALSE

\* bool(re.search(GIT_DIR, filename)): the paths of this model in which
\* ".gitpie" is found.  With a .gitignore file in the working tree
\* is_ignored returns this for the paths where it is true and raises
\* TypeError for every other path, re.search being given a list; the callers
\* below test for the file.
is_ignored(p) == p \in {GIT_DIR, IgnoredFile}

isfile(w, name) == name \in Paths /\ w[name] # 0
isdir(ds, name) == name = "." \/ name \in ds
exists(w, ds, name) == isfile(w, name) \/ isdir(ds, name)

\* flatten_dir(dir): the files below dir in the order os.walk yields them
flatten_dir(w, dir) ==
    SelectSeq(AllPaths, LAMBDA p : w[p] # 0 /\ (dir = "." \/ DirOf(p) = dir))

RECURSIVE get_all_non_ignored_files(_, _, _)
get_all_non_ignored_files(w, ds, names) ==
    IF names = <<>> THEN <<>>
    ELSE LET name == Head(names)
             found == IF isdir(ds, name)
                      THEN SelectSeq(flatten_dir(w, name), LAMBDA f : ~is_ignored(f))
                      ELSE IF isfile(w, name) /\ ~is_ignored(name)
                      THEN <<name>> ELSE <<>>
         IN found \o get_all_non_ignored_files(w, ds, Tail(names))

Range(s) == {s[i] : i \in 1..Len(s)}

\* ------------------------------------------------------------- resolution
\* a check of the hex digits alone, whatever their number
check_oid_any_length(s) == IF IsHex(s) THEN [err |-> "", oid |-> s]
                           ELSE [err |-> "AssertionError", oid |-> NoStr]

\* check_oid: 2 < len(oid) <= 40 hex digits
check_oid(s) == IF IsHex(s) /\ 2 < s.n /\ s.n <= 40 THEN [err |-> "", oid |-> s]
                ELSE [err |-> "AssertionError", oid |-> NoStr]

\* d.get_ref_value: dereferences a reference file through its "ref: " chain
get_ref_value(rf, ref) == get_local_master_hash(rf, ref, TRUE)

\* get_oid(ref_name): [err, oid]
get_oid(rf, ref_name) ==
    LET refs_to_try == <<ref_name, join("refs/tags", ref_name), join("refs/heads", ref_name)>>
        found == {i \in 1..3 : refs_to_try[i] \in DOMAIN rf}
    IN IF found # {}
       THEN [err |-> "", oid |-> get_ref_value(rf, refs_to_try[CHOOSE i \in found : \A j \in found : i <= j])]
       ELSE check_oid(ref_name)

\* iter_branch_names(): the names of the files in .gitpie/refs/heads
iter_branch_names(rf) == {r.base : r \in {r \in DOMAIN rf : r.dir = "refs/heads" /\ r.sp = 0}}

\* iter_tag_names(): the names of the files in .gitpie/refs/tags
iter_tag_names(rf) == {r.base : r \in {r \in DOMAIN rf : r.dir = "refs/tags" /\ r.sp = 0}}

\* ------------------------------------------------------------------ codecs
\* stat.S_ISDIR(mode)
S_ISDIR(mode) == (mode \div 4096) % 16 = S_IFDIR \div 4096

\* write_tree: one record (mode, path, sha1) per index entry, in index order
TreeEntries(idx) ==
    [i \in 1..Len(idx) |-> [mode |-> idx[i].mode, path |-> idx[i].path, sha1 |-> idx[i].sha1]]

RECURSIVE read_tree(_, _, _)
RECURSIVE ReadTreeFrom(_, _, _, _)
\* the loop of read_tree over the records of data, from record i on
ReadTreeFrom(objs, data, i, recursive) ==
    IF i > Len(data) THEN [err |-> "", entries |-> <<>>]
    ELSE LET e == data[i]
             sub == IF recursive /\ S_ISDIR(e.mode)
                    THEN read_tree(objs, Hex(e.sha1), TRUE)
                    ELSE [err |-> "", entries |-> <<>>]
             rest == ReadTreeFrom(objs, data, i + 1, recursive)
         IN IF sub.err # "" THEN sub
            ELSE IF rest.err # "" THEN rest
            ELSE [err |-> "", entries |-> sub.entries \o <<e>> \o rest.entries]

\* read_tree(sha1, recursive): [err, entries]
read_tree(objs, s, recursive) ==
    LET r == read_object(objs, s)
    IN IF r.err # "" THEN [err |-> r.err, entries |-> <<>>]
       ELSE IF r.obj.type # "tree" THEN [err |-> "AssertionError", entries |-> <<>>]
       ELSE ReadTreeFrom(objs, r.obj.entries, 1, recursive)

\* read_commit(oid): [err, tree, parents, author_time, message]
read_commit(objs, s) ==
    LET r == read_object(objs, s)
        commit_lines == r.obj.lines
        none == [err |-> "", tree |-> NoStr, parents |-> Line("", NoStr, 0),
                 author_time |-> Line("", NoStr, 0), message |-> Line("", NoStr, 0)]
    IN IF r.err # "" THEN [none EXCEPT !.err = r.err]
       ELSE IF r.obj.type # "commit" THEN [none EXCEPT !.err = "AssertionError"]
       ELSE IF Len(commit_lines) < 6 THEN [none EXCEPT !.err = "IndexError"]
       ELSE [err |-> "", tree |-> commit_lines[1].s, parents |-> commit_lines[2],
             author_time |-> commit_lines[3], message |-> commit_lines[6]]

\* --------------------------------------------------------------------- add
RECURSIVE HashBlobs(_, _, _)
\* the hash_object(read_file(path), "blob") calls of add, path by path
HashBlobs(objs, w, filepaths) ==
    IF filepaths = <<>> THEN objs
    ELSE HashBlobs(hash_object(objs, Blob(w[Head(filepaths)]), TRUE), w, Tail(filepaths))

\* base.add(filepaths): the entries written to the index
add(idx, w, ds, filepaths) ==
    LET all_entries == read_index(idx)
        entries == SelectSeq(all_entries,
                       LAMBDA e : exists(w, ds, e.path) /\ e.path \notin Range(filepaths))
        new == [i \in 1..Len(filepaths) |->
                   IndexEntry(REG_MODE, sha1(<<>>, Blob(w[filepaths[i]])),
                              Len(filepaths[i]), filepaths[i])]
    IN write_index(SortByPath(entries \o new))

\* ------------------------------------------------------------------ commit
\* the lines of a message, as they stand in the payload once it is joined
\* with "\n"
MessageLines(message) == [i \in 1..Len(message) |-> Line("", Text(message[i]), 0)]

\* the payload of the commit object, line by line
CommitLines(tree, parent, author, time, message) ==
    <<Line("tree", Hex(tree), 0)>>
    \o (IF Truthy(parent) THEN <<Line("parent", parent, 0)>> ELSE <<>>)
    \o <<Line("author", Text(author), time), Line("committer", Text(author), time),
         Line("", NoStr, 0)>>
    \o MessageLines(message)
    \o <<Line("", NoStr, 0)>>

\* ---------------------------------------------------------------- checkout
\* oid_by_path = {tree_line[1]: tree_line[2] for tree_line in tree_lines}
OidByPath(tree_lines, p) ==
    tree_lines[CHOOSE i \in 1..Len(tree_lines) :
                  /\ tree_lines[i].path = p
                  /\ \A j \in (i + 1)..Len(tree_lines) : tree_lines[j].path # p].sha1

TreePaths(tree_lines) == {tree_lines[i].path : i \in 1..Len(tree_lines)}

\* empty_dir(tree_lines): [wt, wdirs] after the bottom-up walk
empty_dir(w, ds, tree_lines) ==
    LET kept == [p \in Paths |->
                    IF is_ignored(p) THEN w[p]
                    ELSE IF /\ w[p] # 0
                            /\ p \in TreePaths(tree_lines)
                            /\ OidByPath(tree_lines, p) = sha1(<<>>, Blob(w[p]))
                    THEN w[p] ELSE 0]
    IN [wt |-> kept,
        wdirs |-> {dir \in ds : \/ is_ignored(dir)
                                \/ dir \in TreePaths(tree_lines)
                                \/ \E p \in Paths : DirOf(p) = dir /\ kept[p] # 0}]

\* empty_dir(tree_lines): the object files left by the walk, which comes
\* through .gitpie/objects as through every directory below the current one
empty_dir_objects(objs) == [i \in {i \in DOMAIN objs : is_ignored(GIT_DIR)} |-> objs[i]]

RECURSIVE restore_files(_, _, _, _)
\* restore_files(tree_lines): [err, wt]; the files written before an error stay
restore_files(objs, w, ds, tree_lines) ==
    IF tree_lines = <<>> THEN [err |-> "", wt |-> w]
    ELSE LET path == Head(tree_lines).path
             r == read_object(objs, Hex(Head(tree_lines).sha1))
         IN IF exists(w, ds, path) THEN restore_files(objs, w, ds, Tail(tree_lines))
            ELSE IF r.err # "" THEN [err |-> r.err, wt |-> w]
            ELSE IF r.obj.type # "blob" THEN restore_files(objs, w, ds, Tail(tree_lines))
            ELSE IF DirOf(path) # "" /\ DirOf(path) \notin ds
                 THEN [err |-> "FileNotFoundError", wt |-> w]
            ELSE restore_files(objs, [w EXCEPT ![path] = r.obj.content], ds, Tail(tree_lines))

\* restore_index(tree_lines): [err, index]
restore_index(idx, w, ds, tree_lines) ==
    IF \E i \in 1..Len(tree_lines) : ~exists(w, ds, tree_lines[i].path)
    THEN [err |-> "FileNotFoundError", index |-> idx]
    ELSE [err |-> "",
          index |-> write_index(SortByPath(
              [i \in 1..Len(tree_lines) |->
                  IndexEntry(tree_lines[i].mode, tree_lines[i].sha1,
                             Len(tree_lines[i].path), tree_lines[i].path)]))]

\* base.checkout(name): the outcome and the state it leaves.  stage is the
\* last step that was started; an exception leaves what was done before it.
checkout(w, ds, idx, objs, rf, name) ==
    LET o == get_oid(rf, name)
        commit == read_commit(objs, o.oid)
        t == read_tree(objs, commit.tree, TRUE)
        tree_lines == t.entries
        pruned == empty_dir(w, ds, tree_lines)
        kept == empty_dir_objects(objs)
        restored == restore_files(kept, pruned.wt, pruned.wdirs, tree_lines)
        ri == restore_index(idx, restored.wt, pruned.wdirs, tree_lines)
        ur == update_ref(rf, HEAD, [o.oid EXCEPT !.pre = "ref: "], FALSE)
        same == [err |-> "", stage |-> "", oid |-> o.oid, tree |-> <<>>,
                 wt |-> w, wdirs |-> ds, index |-> idx, refs |-> rf, objects |-> objs]
    IN IF o.err # "" THEN [same EXCEPT !.err = o.err, !.stage = "get_oid"]
       ELSE IF commit.err # "" THEN [same EXCEPT !.err = commit.err, !.stage = "read_commit"]
       ELSE IF t.err # "" THEN [same EXCEPT !.err = t.err, !.stage = "read_tree"]
       ELSE IF w[GitIgnoreFile] # 0
            THEN [same EXCEPT !.err = "TypeError", !.stage = "empty_dir", !.tree = tree_lines]
       ELSE IF restored.err # ""
            THEN [same EXCEPT !.err = restored.err, !.stage = "restore_files",
                              !.tree = tree_lines, !.objects = kept,
                              !.wt = restored.wt, !.wdirs = pruned.wdirs]
       ELSE IF ri.err # ""
            THEN [same EXCEPT !.err = ri.err, !.stage = "restore_index",
                              !.tree = tree_lines, !.objects = kept,
                              !.wt = restored.wt, !.wdirs = pruned.wdirs]
       ELSE [same EXCEPT !.err = ur.err, !.stage = "update_ref",
                         !.tree = tree_lines, !.objects = kept,
                         !.wt = restored.wt, !.wdirs = pruned.wdirs,
                         !.index = ri.index, !.refs = ur.refs]

\* ------------------------------------------------------------------ status
\* sorted(paths)
Sorted(S) == SelectSeq(AllPaths, LAMBDA p : p \in S)

NoStatus == [modified_staged |-> <<>>, new_staged |-> <<>>, modified_unstaged |-> <<>>,
             new_unstaged |-> <<>>, deleted |-> <<>>]

\* entries_by_path[p].sha1: the last entry for p wins
EntryByPath(idx, p) ==
    idx[CHOOSE i \in 1..Len(idx) :
           idx[i].path = p /\ \A j \in (i + 1)..Len(idx) : idx[j].path # p]

\* a staged change judged from the index and the commit alone, whatever is
\* on disk
chain_eq_ne_index_only(a, b, c) == b # c

\* the chained comparison a == b != c
chain_eq_ne(a, b, c) == a = b /\ b # c

\* get_status(): [err, out]
get_status(w, idx, objs, rf) ==
    LET paths == {p \in Paths : w[p] # 0}
        entries == read_index(idx)
        entry_paths == {entries[i].path : i \in 1..Len(entries)}
        o == get_oid(rf, HEAD)
        commit == read_commit(objs, o.oid)
        t == read_tree(objs, commit.tree, TRUE)
        commited_paths == IF Truthy(o.oid) THEN TreePaths(t.entries) ELSE {}
        commited_files == paths \cap commited_paths
        disk(p) == sha1(<<>>, Blob(w[p]))
        modified_staged == {p \in paths \cap entry_paths :
                               /\ p \in commited_files
                               /\ chain_eq_ne(disk(p), EntryByPath(entries, p).sha1,
                                              OidByPath(t.entries, p))}
        modified_unstaged == {p \in paths \cap entry_paths :
                                 disk(p) # EntryByPath(entries, p).sha1}
        new_staged == (paths \cap entry_paths) \ commited_paths
        new_unstaged == paths \ entry_paths
        deleted == entry_paths \ paths
    IN IF w[GitIgnoreFile] # 0 THEN [err |-> "TypeError", out |-> NoStatus]
       ELSE IF o.err # "" THEN [err |-> o.err, out |-> NoStatus]
       ELSE IF Truthy(o.oid) /\ commit.err # "" THEN [err |-> commit.err, out |-> NoStatus]
       ELSE IF Truthy(o.oid) /\ t.err # "" THEN [err |-> t.err, out |-> NoStatus]
       ELSE [err |-> "",
             out |-> [modified_staged |-> Sorted(modified_staged),
                      new_staged |-> Sorted(new_staged),
                      modified_unstaged |-> Sorted(modified_unstaged),
                      new_unstaged |-> Sorted(new_unstaged),
                      deleted |-> Sorted(deleted)]]

\* ------------------------------------------------- the bytes of the files
\* b"\x00" and b" "
NUL == 0
SP == 32

\* str.encode() of the three object types
encode(obj_type) ==
    CASE obj_type = "blob" -> <<98, 108, 111, 98>>
      [] obj_type = "tree" -> <<116, 114, 101, 101>>
      [] obj_type = "commit" -> <<99, 111, 109, 109, 105, 116>>

\* bytes.decode() of a header word: the type it spells, "?" for another word
decode(word) ==
    IF \E t \in {"blob", "tree", "commit"} : encode(t) = word
    THEN CHOOSE t \in {"blob", "tree", "commit"} : encode(t) = word
    ELSE "?"

RECURSIVE format_int(_)
\* "{}".format(n).encode() of a natural number: its decimal digits
format_int(n) ==
    IF n < 10 THEN <<48 + n>> ELSE format_int(n \div 10) \o <<48 + (n % 10)>>

IsDigit(b) == b >= 48 /\ b <= 57

RECURSIVE int_digits(_, _)
int_digits(s, acc) ==
    IF s = <<>> THEN acc ELSE int_digits(Tail(s), 10 * acc + (Head(s) - 48))

\* int(s) of a word: [err, value]
int(s) ==
    IF s # <<>> /\ \A i \in 1..Len(s) : IsDigit(s[i])
    THEN [err |-> "", value |-> int_digits(s, 0)]
    ELSE [err |-> "ValueError", value |-> 0]

\* str.isspace() of a character below 128
IsSpace(b) == b \in (9..13) \cup (28..32)

RECURSIVE split_from(_, _, _)
\* str.split(): the words of s between runs of whitespace; word is the
\* word being read
split_from(s, i, word) ==
    IF i > Len(s) THEN (IF word = <<>> THEN <<>> ELSE <<word>>)
    ELSE IF IsSpace(s[i])
         THEN (IF word = <<>> THEN <<>> ELSE <<word>>) \o split_from(s, i + 1, <<>>)
         ELSE split_from(s, i + 1, Append(word, s[i]))

split(s) == split_from(s, 1, <<>>)

\* bytes.index(b"\x00", start): the position of the last NUL from start on, a
\* slip for the first
rindex_nul(s, start) ==
    IF \E i \in start..Len(s) : s[i] = NUL
    THEN CHOOSE i \in start..Len(s) : s[i] = NUL /\ \A j \in (i + 1)..Len(s) : s[j] # NUL
    ELSE 0

\* bytes.index(b"\x00", start) and bytes.find(b"\x00", start): the position
\* of the first NUL from start on, 0 when there is none
index_nul(s, start) ==
    IF \E i \in start..Len(s) : s[i] = NUL
    THEN CHOOSE i \in start..Len(s) : s[i] = NUL /\ \A j \in start..(i - 1) : s[j] # NUL
    ELSE 0

\* zlib.compress and zlib.decompress
compress(b) == [zlib |-> b]
decompress(z) == z.zlib

\* the number of hex digits of an id in this model, for the 40 of
\* hexdigest(), and the hex digits used
HexLen == 4
HexDigits == {"a", "b"}
Ids == [1..HexLen -> HexDigits]

\* s[:n] and s[n:] of a sequence
Take(s, n) == SubSeq(s, 1, IF n < Len(s) THEN n ELSE Len(s))
Drop(s, n) == SubSeq(s, n + 1, Len(s))
\* name.startswith(rest)
startswith(name, rest) == Len(rest) <= Len(name) /\ Take(name, Len(rest)) = rest

\* header + b"\x00" + data of hash_object
full_data(data, obj_type) ==
    encode(obj_type) \o <<SP>> \o format_int(Len(data)) \o <<NUL>> \o data

\* the object file written whenever it does not exist, whatever "write" is
object_written_ignoring_write(st, id, write) == id \notin DOMAIN st

\* hash_object: whether it writes the object file, "if write:" and
\* "if not os.path.exists(path):"
object_written(st, id, write) == write /\ id \notin DOMAIN st

\* hash_object(data, obj_type, write) once sha1 = id is computed from
\* full = full_data(data, obj_type): the store afterwards
hash_object_bytes(st, id, full, write) ==
    IF object_written(st, id, write)
    THEN [i \in DOMAIN st \cup {id} |-> IF i = id THEN compress(full) ELSE st[i]]
    ELSE st

\* find_object(sha1_prefix): [err, path], the path given as the id of the
\* object file
find_object(st, sha1_prefix) ==
    LET dir == Take(sha1_prefix, 2)
        rest == Drop(sha1_prefix, 2)
        listdir == {id \in DOMAIN st : Take(id, 2) = dir}
        found == {id \in listdir : startswith(Drop(id, 2), rest)}
    IN IF Len(sha1_prefix) < 2 THEN [err |-> "ValueError: prefix too short", path |-> <<>>]
       ELSE IF listdir = {} THEN [err |-> "FileNotFoundError", path |-> <<>>]
       ELSE IF found = {} THEN [err |-> "ValueError: not found", path |-> <<>>]
       ELSE IF Cardinality(found) >= 2
            THEN [err |-> "ValueError: multiple objects", path |-> <<>>]
       ELSE [err |-> "", path |-> CHOOSE id \in found : TRUE]

\* read_object(sha1_prefix): [err, type, data]
read_object_bytes(st, sha1_prefix) ==
    LET f == find_object(st, sha1_prefix)
        full == decompress(st[f.path])
        nul_index == index_nul(full, 1)
        header == Take(full, nul_index - 1)
        words == split(header)
        size == int(words[2])
        data == Drop(full, nul_index)
        none == [err |-> "", type |-> "", data |-> <<>>]
    IN IF f.err # "" THEN [none EXCEPT !.err = f.err]
       ELSE IF nul_index = 0 THEN [none EXCEPT !.err = "ValueError"]
       ELSE IF Len(words) # 2 THEN [none EXCEPT !.err = "ValueError"]
       ELSE IF size.err # "" THEN [none EXCEPT !.err = size.err]
       ELSE IF size.value # Len(data) THEN [none EXCEPT !.err = "AssertionError"]
       ELSE [err |-> "", type |-> decode(words[1]), data |-> data]

\* struct.pack("!L", v) and ("!H", v): the n bytes of v, most significant
\* first
BE(v, n) == [i \in 1..n |-> (v \div (256 ^ (n - i))) % 256]

RECURSIVE unBE(_)
\* struct.unpack of a big-endian number
unBE(s) == IF s = <<>> THEN 0 ELSE 256 * unBE(SubSeq(s, 1, Len(s) - 1)) + s[Len(s)]

\* hashlib.sha1(x).digest(): 20 bytes that x determines; byte k of the
\* digest of x is the pair of x and k
sha1_digest(x) == [k \in 1..20 |-> [sha1 |-> x, byte |-> k]]

\* an index entry with all its fields: stat holds ctime_s, ctime_n, mtime_s,
\* mtime_n, dev, ino, mode, uid, gid and size, sha1 is 20 bytes, path is
\* path.encode()
ByteEntry(stat, sha, flags, path) ==
    [stat |-> stat, sha1 |-> sha, flags |-> flags, path |-> path]

\* a record length that is the next multiple of 8 from 62 + n on, n itself
\* when it is one
entry_len_unpadded(n) == ((62 + n + 7) \div 8) * 8

\* ((62 + len(path) + 8) // 8) * 8, the length of the record of a path of
\* n bytes
entry_len(n) == ((62 + n + 8) \div 8) * 8

RECURSIVE concat(_)
\* b"".join(parts)
concat(parts) == IF parts = <<>> THEN <<>> ELSE Head(parts) \o concat(Tail(parts))

\* the packed_entry of write_index
pack_entry(e) ==
    concat([i \in 1..10 |-> BE(e.stat[i], 4)])
    \o Take(e.sha1 \o [i \in 1..20 |-> NUL], 20)
    \o BE(e.flags, 2)
    \o e.path
    \o [i \in 1..(entry_len(Len(e.path)) - 62 - Len(e.path)) |-> NUL]

\* write_index(entries): the index file written
write_index_bytes(entries) ==
    LET header == <<68, 73, 82, 67>> \o BE(2, 4) \o BE(Len(entries), 4)
        all_data == header \o concat([i \in 1..Len(entries) |-> pack_entry(entries[i])])
    IN [exists |-> TRUE, data |-> all_data, digest |-> sha1_digest(all_data)]

RECURSIVE parse_entries(_, _)
\* the while loop of read_index over entry_data, from offset i on (i counts
\* from 0 as in the code): [err, entries]
parse_entries(entry_data, i) ==
    IF ~(i + 62 < Len(entry_data)) THEN [err |-> "", entries |-> <<>>]
    ELSE LET fields_end == i + 62
             path_end == index_nul(entry_data, fields_end + 1) - 1
             path == SubSeq(entry_data, fields_end + 1, path_end)
             entry == ByteEntry([k \in 1..10 |->
                                    unBE(SubSeq(entry_data, i + 4 * k - 3, i + 4 * k))],
                                SubSeq(entry_data, i + 41, i + 60),
                                unBE(SubSeq(entry_data, i + 61, i + 62)),
                                path)
             rest == parse_entries(entry_data, i + entry_len(Len(path)))
         IN IF path_end < 0 THEN [err |-> "ValueError", entries |-> <<>>]
            ELSE IF rest.err # "" THEN rest
            ELSE [err |-> "", entries |-> <<entry>> \o rest.entries]

\* a reader that takes the checksum for granted
checksum_unchecked(f) == TRUE

\* digest == data[-20:] of read_index
checksum_ok(f) == sha1_digest(f.data) = f.digest

\* read_index(): [err, entries]
read_index_bytes(f) ==
    LET parsed == parse_entries(Drop(f.data, 12), 0)
    IN IF ~f.exists THEN [err |-> "", entries |-> <<>>]
       ELSE IF ~checksum_ok(f) THEN [err |-> "AssertionError", entries |-> <<>>]
       ELSE IF Len(f.data) < 12 THEN [err |-> "struct.error", entries |-> <<>>]
       ELSE IF Take(f.data, 4) # <<68, 73, 82, 67>>
            THEN [err |-> "AssertionError", entries |-> <<>>]
       ELSE IF unBE(SubSeq(f.data, 5, 8)) # 2 THEN [err |-> "AssertionError", entries |-> <<>>]
       ELSE IF parsed.err # "" THEN parsed
       ELSE IF Len(parsed.entries) # unBE(SubSeq(f.data, 9, 12))
            THEN [err |-> "AssertionError", entries |-> <<>>]
       ELSE parsed

\* the index file when there is none
NoFile == [exists |-> FALSE, data |-> <<>>, digest |-> <<>>]

\* the record of a call on the bytes: op the operation, type, data, write
\* and prefix its arguments, id the id computed, wrote whether an object file
\* was written, err the exception raised ("" for none), rtype and rdata the
\* object read, path the object found, entries the entries given or returned
NoCall == [op |-> "", type |-> "", data |-> <<>>, write |-> FALSE, prefix |-> <<>>,
           id |-> <<>>, wrote |-> FALSE, err |-> "", rtype |-> "", rdata |-> <<>>,
           path |-> <<>>, entries |-> <<>>, pos |-> 0]

\* ------------------------------------------------------------------- init
\* the record of a call: op the operation, arg its argument, oid the id it
\* resolved or was given, err the exception it raised ("" for none), stage
\* the step it reached, ret the id it returned, tree the tree lines a
\* checkout worked from, out the result of status, rep whether the call
\* before was the same checkout, changed whether a checkout changed the
\* working tree or the index, files the files an add was given, message the
\* message a commit was given
NoLast == [op |-> "", arg |-> NoStr, oid |-> NoStr, err |-> "", stage |-> "", ret |-> 0,
           tree |-> <<>>, out |-> NoStatus, rep |-> FALSE, changed |-> FALSE,
           files |-> {}, message |-> <<>>]

\* data.init: HEAD is a symbolic reference to refs/heads/master
Init ==
    /\ wt = [p \in Paths |-> 0]
    /\ wdirs = {}
    /\ index = <<>>
    /\ objects = <<>>
    /\ refs = (HEAD :> [MASTER EXCEPT !.pre = "ref: "])
    /\ ncommits = 0
    /\ last = [NoLast EXCEPT !.op = "init"]
    /\ store = <<>>
    /\ digests = <<>>
    /\ ifile = NoFile
    /\ call = [NoCall EXCEPT !.op = "init"]
    /\ adds = [p \in {1, 2} |-> [pc |-> "", files |-> <<>>, entries |-> <<>>]]

\* ------------------------------------------------- the user's working tree
\* the user writes a file of the working tree
WriteFile(p, c) ==
    /\ DirOf(p) = "" \/ DirOf(p) \in wdirs
    /\ wt[p] # c
    /\ wt' = [wt EXCEPT ![p] = c]
    /\ last' = [NoLast EXCEPT !.op = "edit"]
    /\ UNCHANGED <<wdirs, index, objects, refs, ncommits, byte_vars, adds>>

\* the user removes a file of the working tree
RemoveFile(p) ==
    /\ wt[p] # 0
    /\ wt' = [wt EXCEPT ![p] = 0]
    /\ last' = [NoLast EXCEPT !.op = "edit"]
    /\ UNCHANGED <<wdirs, index, objects, refs, ncommits, byte_vars, adds>>

\* the user makes a sub-directory
MkDir(dir) ==
    /\ dir \notin wdirs
    /\ wdirs' = wdirs \cup {dir}
    /\ last' = [NoLast EXCEPT !.op = "edit"]
    /\ UNCHANGED <<wt, index, objects, refs, ncommits, byte_vars, adds>>

\* the user removes an empty sub-directory
RmDir(dir) ==
    /\ dir \in wdirs
    /\ \A p \in Paths : DirOf(p) = dir => wt[p] = 0
    /\ wdirs' = wdirs \ {dir}
    /\ last' = [NoLast EXCEPT !.op = "edit"]
    /\ UNCHANGED <<wt, index, objects, refs, ncommits, byte_vars, adds>>

\* ---------------------------------------------------------------- commands
\* cli.add: add(get_all_non_ignored_files(paths))
AddCmd(names) ==
    LET filepaths == get_all_non_ignored_files(wt, wdirs, names)
    IN IF wt[GitIgnoreFile] # 0 /\ filepaths # <<>>
       THEN /\ last' = [NoLast EXCEPT !.op = "add", !.err = "TypeError"]
            /\ UNCHANGED <<wt, wdirs, index, objects, refs, ncommits, byte_vars, adds>>
       ELSE /\ index' = add(index, wt, wdirs, filepaths)
            /\ objects' = HashBlobs(objects, wt, filepaths)
            /\ last' = [NoLast EXCEPT !.op = "add", !.files = Range(filepaths)]
            /\ UNCHANGED <<wt, wdirs, refs, ncommits, byte_vars, adds>>

\* cli.add in invocation p, up to and with the first lines of base.add:
\* all_entries = d.read_index() and the entries kept of it
AddRead(p, names) ==
    LET filepaths == get_all_non_ignored_files(wt, wdirs, names)
    IN /\ adds[p].pc = ""
       /\ IF wt[GitIgnoreFile] # 0 /\ filepaths # <<>>
          THEN adds' = [adds EXCEPT ![p].pc = "TypeError"]
          ELSE adds' = [adds EXCEPT ![p] =
                   [pc |-> "read", files |-> filepaths,
                    entries |-> SelectSeq(read_index(index),
                                    LAMBDA e : /\ exists(wt, wdirs, e.path)
                                               /\ e.path \notin Range(filepaths))]]
       /\ UNCHANGED <<repo_vars, byte_vars>>

\* the loop of base.add in invocation p: hash_object writes the blob of
\* each path and its entry is appended; read_file raises for a path that
\* is no longer there, the blobs of the paths before it are written
AddHash(p) ==
    LET files == adds[p].files
        gone == {i \in 1..Len(files) : wt[files[i]] = 0}
        done == IF gone = {} THEN files
                ELSE SubSeq(files, 1, (CHOOSE i \in gone : \A j \in gone : i <= j) - 1)
    IN /\ adds[p].pc = "read"
       /\ objects' = HashBlobs(objects, wt, done)
       /\ adds' = IF gone # {} THEN [adds EXCEPT ![p].pc = "FileNotFoundError"]
                  ELSE [adds EXCEPT ![p].pc = "hashed",
                                    ![p].entries = adds[p].entries \o add(<<>>, wt, wdirs, files)]
       /\ UNCHANGED <<wt, wdirs, index, refs, ncommits, last, byte_vars>>

\* the end of base.add in invocation p: entries.sort and d.write_index
AddWrite(p) ==
    /\ adds[p].pc = "hashed"
    /\ index' = write_index(SortByPath(adds[p].entries))
    /\ adds' = [adds EXCEPT ![p].pc = "done"]
    /\ last' = [NoLast EXCEPT !.op = "add", !.files = Range(adds[p].files)]
    /\ UNCHANGED <<wt, wdirs, objects, refs, ncommits, byte_vars>>

\* data.commit(message, author) with author None: no configuration file
\* gives user_name and user_email, and commit returns "" having done nothing
CommitNoAuthor ==
    /\ last' = [NoLast EXCEPT !.op = "commit", !.stage = "author"]
    /\ UNCHANGED <<wt, wdirs, index, objects, refs, ncommits, byte_vars, adds>>

\* data.commit(message, author) with an author
CommitCmd(limit, author, message, time) ==
    LET tree_obj == Tree(TreeEntries(read_index(index)))
        tree == sha1(objects, tree_obj)
        objs1 == hash_object(objects, tree_obj, TRUE)
        parent == get_local_master_hash(refs, HEAD, TRUE)
        commit_obj == CommitObj(CommitLines(tree, parent, author, time, message))
        sha == sha1(objs1, commit_obj)
        ur == update_ref(refs, HEAD, [Hex(sha) EXCEPT !.nl = TRUE], TRUE)
    IN /\ ncommits < limit
       /\ ncommits' = ncommits + 1
       /\ objects' = hash_object(objs1, commit_obj, TRUE)
       /\ refs' = ur.refs
       /\ last' = [NoLast EXCEPT !.op = "commit", !.stage = "update_ref", !.err = ur.err,
                                 !.oid = parent, !.ret = sha, !.message = message]
       /\ UNCHANGED <<wt, wdirs, index, byte_vars, adds>>

\* base.checkout(name)
CheckoutCmd(name) ==
    LET r == checkout(wt, wdirs, index, objects, refs, name)
    IN /\ wt' = r.wt
       /\ wdirs' = r.wdirs
       /\ index' = r.index
       /\ refs' = r.refs
       /\ objects' = r.objects
       /\ last' = [NoLast EXCEPT !.op = "checkout", !.arg = name, !.err = r.err,
                                 !.stage = r.stage, !.oid = r.oid, !.tree = r.tree,
                                 !.rep = (last.op = "checkout" /\ last.arg = name),
                                 !.changed = (r.wt # wt \/ r.wdirs # wdirs \/ r.index # index)]
       /\ UNCHANGED <<ncommits, byte_vars, adds>>

\* base.get_status()
StatusCmd ==
    LET r == get_status(wt, index, objects, refs)
    IN /\ last' = [NoLast EXCEPT !.op = "status", !.err = r.err, !.out = r.out]
       /\ UNCHANGED <<wt, wdirs, index, objects, refs, ncommits, byte_vars, adds>>

\* base.create_branch(name, oid)
CreateBranch(name, oid) ==
    LET ref == join("refs/heads", RefName("", name))
        ur == update_ref(refs, ref, oid, TRUE)
    IN /\ refs' = ur.refs
       /\ last' = [NoLast EXCEPT !.op = "branch", !.arg = ref, !.oid = oid, !.err = ur.err]
       /\ UNCHANGED <<wt, wdirs, index, objects, ncommits, byte_vars, adds>>

\* base.create_tage(name, oid)
CreateTag(name, oid) ==
    LET ref == join("refs/tags", RefName("", name))
        ur == update_ref(refs, ref, oid, TRUE)
    IN /\ refs' = ur.refs
       /\ last' = [NoLast EXCEPT !.op = "tag", !.arg = ref, !.oid = oid, !.err = ur.err]
       /\ UNCHANGED <<wt, wdirs, index, objects, ncommits, byte_vars, adds>>

\* a reference file written by hand (a tag, a branch, a symbolic reference),
\* its directory made first where init did not make it
WriteRefFile(ref, value) ==
    /\ IF ref \in DOMAIN refs THEN refs[ref] # value ELSE TRUE
    /\ refs' = [r \in DOMAIN refs \cup {ref} |-> IF r = ref THEN value ELSE refs[r]]
    /\ last' = [NoLast EXCEPT !.op = "edit"]
    /\ UNCHANGED <<wt, wdirs, index, objects, ncommits, byte_vars, adds>>

\* base.get_oid(ref_name), the type of the object_id, oid and start_point
\* arguments of the command line
GetOidCmd(ref_name) ==
    LET r == get_oid(refs, ref_name)
    IN /\ last' = [NoLast EXCEPT !.op = "get_oid", !.arg = ref_name, !.err = r.err,
                                 !.oid = r.oid]
       /\ UNCHANGED <<wt, wdirs, index, objects, refs, ncommits, byte_vars, adds>>

\* cli.hash_object with --write: data.hash_object(read_file(path), type) of
\* a file the user prepared
HashObjectCmd(o) ==
    /\ objects' = hash_object(objects, o, TRUE)
    /\ last' = [NoLast EXCEPT !.op = "hash_object", !.ret = sha1(objects, o)]
    /\ UNCHANGED <<wt, wdirs, index, refs, ncommits, byte_vars, adds>>

\* base.read_tree(sha1, recursive=True)
ReadTreeCmd(s) ==
    LET r == read_tree(objects, s, TRUE)
    IN /\ last' = [NoLast EXCEPT !.op = "read_tree", !.arg = s, !.err = r.err,
                                 !.tree = r.entries]
       /\ UNCHANGED <<wt, wdirs, index, objects, refs, ncommits, byte_vars, adds>>

\* data.hash_object(data, obj_type, write); id is the value of SHA-1 for
\* bytes that were not hashed before, different from every value so far
HashObjectBytes(data, obj_type, write, id) ==
    LET full == full_data(data, obj_type)
        known == full \in DOMAIN digests
        sha1hex == IF known THEN digests[full] ELSE id
    IN /\ IF known THEN id = digests[full]
          ELSE /\ \A f \in DOMAIN digests : digests[f] # id
               /\ Cardinality(DOMAIN digests) < MaxObjects
       /\ digests' = IF known THEN digests ELSE digests @@ (full :> id)
       /\ store' = hash_object_bytes(store, sha1hex, full, write)
       /\ call' = [NoCall EXCEPT !.op = "hash_object", !.type = obj_type, !.data = data,
                                 !.write = write, !.id = sha1hex,
                                 !.wrote = object_written(store, sha1hex, write)]
       /\ UNCHANGED <<repo_vars, adds, ifile>>

\* data.read_object(sha1_prefix)
ReadObjectBytes(sha1_prefix) ==
    LET r == read_object_bytes(store, sha1_prefix)
    IN /\ call' = [NoCall EXCEPT !.op = "read_object", !.prefix = sha1_prefix,
                                 !.err = r.err, !.rtype = r.type, !.rdata = r.data]
       /\ UNCHANGED <<repo_vars, adds, store, digests, ifile>>

\* data.find_object(sha1_prefix)
FindObject(sha1_prefix) ==
    LET r == find_object(store, sha1_prefix)
    IN /\ call' = [NoCall EXCEPT !.op = "find_object", !.prefix = sha1_prefix,
                                 !.err = r.err, !.path = r.path]
       /\ UNCHANGED <<repo_vars, adds, store, digests, ifile>>

\* data.write_index(entries)
WriteIndexBytes(entries) ==
    /\ ifile' = write_index_bytes(entries)
    /\ call' = [NoCall EXCEPT !.op = "write_index", !.entries = entries]
    /\ UNCHANGED <<repo_vars, adds, store, digests>>

\* data.read_index()
ReadIndexBytes ==
    LET r == read_index_bytes(ifile)
    IN /\ call' = [NoCall EXCEPT !.op = "read_index", !.err = r.err, !.entries = r.entries]
       /\ UNCHANGED <<repo_vars, adds, store, digests, ifile>>

\* one byte of the index file as write_index left it is changed to v; pos
\* counts the bytes of the file from 1
FlipIndexByte(pos, v) ==
    /\ call.op = "write_index"
    /\ pos <= Len(ifile.data) + 20
    /\ IF pos <= Len(ifile.data)
       THEN /\ ifile.data[pos] # v
            /\ ifile' = [ifile EXCEPT !.data[pos] = v]
       ELSE ifile' = [ifile EXCEPT !.digest[pos - Len(ifile.data)] =
                                       [sha1 |-> <<>>, byte |-> v]]
    /\ call' = [NoCall EXCEPT !.op = "flip", !.pos = pos, !.entries = call.entries]
    /\ UNCHANGED <<repo_vars, adds, store, digests>>

RECURSIVE oct_digits(_, _)
oct_digits(s, acc) ==
    IF s = <<>> THEN acc ELSE oct_digits(Tail(s), 8 * acc + (Head(s) - 48))

\* int(s, 8) of a word of octal digits: [err, value]
int8(s) ==
    IF s # <<>> /\ \A i \in 1..Len(s) : s[i] >= 48 /\ s[i] <= 55
    THEN [err |-> "", value |-> oct_digits(s, 0)]
    ELSE [err |-> "ValueError", value |-> 0]

\* bytes.hex(): two hex digits for each byte
hex(b) ==
    [k \in 1..(2 * Len(b)) |->
        LET byte == b[(k + 1) \div 2]
            n == IF k % 2 = 1 THEN byte \div 16 ELSE byte % 16
        IN IF n < 10 THEN 48 + n ELSE 87 + n]

RECURSIVE read_tree_loop(_, _)
\* the loop of read_tree over the bytes of data from position i on, positions
\* counted from 1: [err, entries]
read_tree_loop(data, i) ==
    LET end == index_nul(data, i)
        head == SubSeq(data, i, end - 1)
        words == split(head)
        mode == int8(words[1])
        digest == SubSeq(data, end + 1, IF end + 20 < Len(data) THEN end + 20 ELSE Len(data))
        rest == read_tree_loop(data, end + 21)
    IN IF end = 0 THEN [err |-> "", entries |-> <<>>]
       ELSE IF \E k \in 1..Len(head) : head[k] >= 128
            THEN [err |-> "UnicodeDecodeError", entries |-> <<>>]
       ELSE IF Len(words) # 2 THEN [err |-> "ValueError", entries |-> <<>>]
       ELSE IF mode.err # "" THEN [err |-> mode.err, entries |-> <<>>]
       ELSE IF rest.err # "" THEN rest
       ELSE [err |-> "",
             entries |-> <<[mode |-> mode.value, path |-> words[2], sha1 |-> hex(digest)]>>
                         \o rest.entries]

\* read_tree(sha1): [err, data, entries], data the payload read
read_tree_bytes(st, sha1hex) ==
    LET r == read_object_bytes(st, sha1hex)
    IN IF r.err # "" THEN [err |-> r.err, data |-> <<>>, entries |-> <<>>]
       ELSE IF r.type # "tree" THEN [err |-> "AssertionError", data |-> r.data, entries |-> <<>>]
       ELSE [err |-> read_tree_loop(r.data, 1).err, data |-> r.data,
             entries |-> read_tree_loop(r.data, 1).entries]

RECURSIVE format_oct(_)
\* "{:o}".format(n).encode(): the octal digits of n
format_oct(n) ==
    IF n < 8 THEN <<48 + n>> ELSE format_oct(n \div 8) \o <<48 + (n % 8)>>

\* the payload write_tree builds from the entries of the index
write_tree_bytes(entries) ==
    concat([i \in 1..Len(entries) |->
               format_oct(entries[i].stat[7]) \o <<SP>> \o entries[i].path
               \o <<NUL>> \o entries[i].sha1])

\* data.write_tree(); id is the value of SHA-1 for the payload when it was
\* not hashed before
WriteTreeBytes(id) ==
    /\ read_index_bytes(ifile).err = ""
    /\ HashObjectBytes(write_tree_bytes(read_index_bytes(ifile).entries), "tree", TRUE, id)

\* base.read_tree(sha1)
ReadTreeBytes(sha1hex) ==
    LET r == read_tree_bytes(store, sha1hex)
    IN /\ call' = [NoCall EXCEPT !.op = "read_tree", !.prefix = sha1hex, !.err = r.err,
                                 !.rdata = r.data, !.entries = r.entries]
       /\ UNCHANGED <<repo_vars, adds, store, digests, ifile>>

\* the arguments the commands are given
Names == (Paths \ {GitIgnoreFile, IgnoredFile}) \cup Dirs \cup {"."}
NameLists == {<<n>> : n \in Names} \cup {<<"d", "d/b">>}
StoredCommits == {i \in DOMAIN objects : objects[i].type = "commit"}
StoredTrees == {i \in DOMAIN objects : objects[i].type = "tree"}
\* checkout by object id, and in SpecRefs by reference name as well
CheckoutNames == {Hex(i) : i \in Contents \cup DOMAIN objects}
RefCheckoutNames == {HEAD, RefName("", "master")} \cup {Hex(i) : i \in StoredCommits}

\* The whole repository: the working tree with its sub-directory, add,
\* commit, checkout and status.
Next ==
    \/ \E p \in Paths \ {GitIgnoreFile, IgnoredFile}, c \in Contents : WriteFile(p, c)
    \/ \E p \in Paths \ {GitIgnoreFile, IgnoredFile} : RemoveFile(p)
    \/ \E dir \in Dirs : MkDir(dir)
    \/ \E dir \in Dirs : RmDir(dir)
    \/ \E names \in NameLists : AddCmd(names)
    \/ CommitNoAuthor
    \/ \E message \in Messages, time \in Times : CommitCmd(MaxCommits, "A", message, time)
    \/ \E name \in CheckoutNames : CheckoutCmd(name)
    \/ StatusCmd

Spec == Init /\ [][Next]_vars

\* The working tree, the index and the last commit as status compares them.
NextStatus ==
    \/ \E p \in Paths \ {GitIgnoreFile, IgnoredFile}, c \in Contents : WriteFile(p, c)
    \/ \E p \in Paths \ {GitIgnoreFile, IgnoredFile} : RemoveFile(p)
    \/ \E dir \in Dirs : MkDir(dir)
    \/ \E names \in NameLists : AddCmd(names)
    \/ \E message \in Messages, time \in Times : CommitCmd(MaxCommits, "A", message, time)
    \/ StatusCmd

SpecStatus == Init /\ [][NextStatus]_vars

\* The references: a history of several commits of one top-level file,
\* branches created on them and checkouts of them.
NextRefs ==
    \/ \E c \in Contents : WriteFile("a", c)
    \/ AddCmd(<<"a">>)
    \/ \E message \in Messages, time \in Times : CommitCmd(MaxRefCommits, "A", message, time)
    \/ \E name \in RefCheckoutNames : CheckoutCmd(name)
    \/ \E name \in Branches, i \in StoredCommits : CreateBranch(name, Hex(i))

SpecRefs == Init /\ [][NextRefs]_vars

\* Checkout in a working tree with an ignored file and a .gitignore file.
NextIgnore ==
    \/ \E p \in {GitIgnoreFile, IgnoredFile} : WriteFile(p, 1)
    \/ \E c \in Contents : WriteFile("d/b", c)
    \/ MkDir("d")
    \/ AddCmd(<<"d">>)
    \/ \E message \in Messages, time \in Times : CommitCmd(MaxCommits, "A", message, time)
    \/ \E name \in CheckoutNames : CheckoutCmd(name)

SpecIgnore == Init /\ [][NextIgnore]_vars

\* the most objects written by hand in SpecDamaged
MaxHandMade == 3

\* objects the user writes with hash-object --write: a tree whose one record
\* for "a" names blob 2 (stored or not), a stored tree, or nothing (sha1 0:
\* the payload ends after the NUL byte and data[end + 1 : end + 21] is
\* empty); a commit on a stored tree or on id 1, which is a blob's or no
\* object's; a commit payload of one line
HandMade ==
    {Tree(<<[mode |-> REG_MODE, path |-> "a", sha1 |-> s]>>) :
        s \in {0, 2} \cup StoredTrees}
    \cup {CommitObj(CommitLines(t, NoStr, "A", 1, <<"m">>)) : t \in {1} \cup StoredTrees}
    \cup {CommitObj(<<Line("tree", Hex(t), 0)>>) : t \in StoredTrees}

\* Checkout of commits and trees that are missing, damaged or of another
\* type, and of names that do not resolve.
NextDamaged ==
    \/ \E c \in Contents : WriteFile("a", c)
    \/ AddCmd(<<"a">>)
    \/ \E o \in HandMade :
           Cardinality(DOMAIN objects \ Contents) < MaxHandMade /\ HashObjectCmd(o)
    \/ \E name \in CheckoutNames \cup {HexN(1, 2)} : CheckoutCmd(name)

SpecDamaged == Init /\ [][NextDamaged]_vars

\* Branches and tags created in a repository that init has just made, on
\* ids of 40 digits, and the names resolved.
NextTags ==
    \/ \E name \in Branches \cup {"v1"}, i \in Contents : CreateBranch(name, Hex(i))
    \/ \E name \in Branches \cup {"v1"}, i \in Contents : CreateTag(name, Hex(i))
    \/ \E name \in Branches \cup {"v1"} : GetOidCmd(RefName("", name))

SpecTags == Init /\ [][NextTags]_vars

\* Two add invocations interleaved with each other, with changes of the
\* working tree and with an add that runs alone.
NextRace ==
    \/ \E p \in {"a", "d/b"}, c \in Contents : WriteFile(p, c)
    \/ MkDir("d")
    \/ \E names \in {<<"a">>, <<"d/b">>} : AddCmd(names)
    \/ \E p \in DOMAIN adds, names \in {<<"a">>, <<"d/b">>} : AddRead(p, names)
    \/ \E p \in DOMAIN adds : AddHash(p)
    \/ \E p \in DOMAIN adds : AddWrite(p)

SpecRace == Init /\ [][NextRace]_vars

\* messages of one line, of two lines, and the empty message
CommitMessages == {<<"m">>, <<"m", "n">>, <<"">>}

\* Commits with messages of one and of several lines.
NextCommit ==
    \/ \E c \in Contents : WriteFile("a", c)
    \/ AddCmd(<<"a">>)
    \/ \E message \in CommitMessages, time \in Times :
           CommitCmd(MaxRefCommits, "A", message, time)

SpecCommit == Init /\ [][NextCommit]_vars

\* payloads: empty, one with a space and a NUL, one of more than 9 bytes
Payloads == {<<>>, <<SP, NUL, 120>>, [i \in 1..12 |-> 120]}
ObjectTypes == {"blob", "tree", "commit"}
\* the values SHA-1 takes in SpecStore
StoreIds == {<<"a", "a", "a", "a">>, <<"a", "a", "a", "b">>, <<"b", "a", "a", "a">>}

\* The object store: objects of every type hashed, stored and read back.
NextStore ==
    \/ \E data \in Payloads, obj_type \in ObjectTypes, write \in BOOLEAN, id \in StoreIds :
           HashObjectBytes(data, obj_type, write, id)
    \/ \E id \in StoreIds : ReadObjectBytes(id)

SpecStore == Init /\ [][NextStore]_vars

\* the values SHA-1 takes in SpecFind: ids in the directories aa and ab
FindIds == {id \in Ids : id[1] = "a"}
\* the prefixes looked up: 1 to HexLen + 1 hex digits
Prefixes == UNION {[1..n -> HexDigits] : n \in 1..(HexLen + 1)}

\* Objects found by a prefix of their id.
NextFind ==
    \/ \E data \in {<<>>, <<120>>, <<120, 120>>}, id \in FindIds :
           HashObjectBytes(data, "blob", TRUE, id)
    \/ \E sha1_prefix \in Prefixes : FindObject(sha1_prefix)

SpecFind == Init /\ [][NextFind]_vars

\* index entries with paths of 1, 2 and 9 bytes, in ascending order of path
IndexEntries ==
    <<ByteEntry(<<1, 2, 3, 4, 5, 6, REG_MODE, 1000, 1000, 7>>, [i \in 1..20 |-> 17], 1, <<97>>),
      ByteEntry(<<0, 0, 0, 0, 0, 0, REG_MODE, 0, 0, 0>>, [i \in 1..20 |-> NUL], 2, <<98, 99>>),
      ByteEntry(<<2147483647, 65536, 256, 255, 1, 1, REG_MODE, 1, 1, 258>>,
                [i \in 1..20 |-> 255], 9, [i \in 1..9 |-> 99])>>
\* the lists of entries written: every choice of IndexEntries, in order
EntryLists ==
    {SelectSeq(IndexEntries, LAMBDA e : e.flags \in S) : S \in SUBSET {1, 2, 9}}

\* The index file written, damaged in one byte, and read.
NextIndex ==
    \/ \E entries \in EntryLists : WriteIndexBytes(entries)
    \/ ReadIndexBytes
    \/ \E pos \in 1..(Len(ifile.data) + 20), v \in {0, 1} : FlipIndexByte(pos, v)

SpecIndex == Init /\ [][NextIndex]_vars

\* one record of a tree payload, "100644 f" NUL and the first k of the 20
\* bytes of a hash
TreeRecord(k) == <<49, 48, 48, 54, 52, 52, SP, 102, NUL>> \o [j \in 1..k |-> 171]
DigestLen == 20
\* tree payloads of n whole records followed by one record with k hash bytes
TreeFile(n, k) == concat([j \in 1..n |-> TreeRecord(DigestLen)]) \o TreeRecord(k)
TreeFiles == {TreeFile(n, k) : n \in {0, 1}, k \in {0, 1, DigestLen - 1, DigestLen}} \cup {<<>>}

\* the indexes write_tree is run on: entries of the paths "a" and "a b" and
\* the entry of IndexEntries whose hash is 20 NUL bytes
TreeEntryLists ==
    LET a == ByteEntry(<<1, 2, 3, 4, 5, 6, REG_MODE, 1000, 1000, 7>>,
                       [i \in 1..20 |-> 171], 1, <<97>>)
        a_b == [a EXCEPT !.flags = 3, !.path = <<97, SP, 98>>]
    IN {<<>>, <<a>>, <<a_b>>, <<a, a_b>>, <<a, IndexEntries[2]>>}

\* Tree objects with whole and with truncated records, stored and read.
NextTreeBytes ==
    \/ \E data \in TreeFiles, obj_type \in {"tree", "blob"}, id \in StoreIds :
           HashObjectBytes(data, obj_type, TRUE, id)
    \/ \E id \in StoreIds : ReadTreeBytes(id)

SpecTreeBytes == Init /\ [][NextTreeBytes]_vars

\* The trees write_tree makes of an index, stored and read.
NextWriteTree ==
    \/ \E entries \in TreeEntryLists : WriteIndexBytes(entries)
    \/ \E id \in StoreIds : WriteTreeBytes(id)
    \/ \E id \in StoreIds : ReadTreeBytes(id)

SpecWriteTree == Init /\ [][NextWriteTree]_vars

\* the records of a tree payload the user writes: a file f or g, or a
\* directory x or y whose id is that of a tree already stored
TreeRecords ==
    {[mode |-> REG_MODE, path |-> "f", sha1 |-> 1], [mode |-> REG_MODE, path |-> "g", sha1 |-> 2]}
    \cup {[mode |-> S_IFDIR, path |-> dir, sha1 |-> t] : dir \in {"x", "y"}, t \in StoredTrees}
\* a tree payload: one record, or two of different paths
TreePayloads ==
    {<<a>> : a \in TreeRecords}
    \cup {<<r[1], r[2]>> : r \in {r \in TreeRecords \X TreeRecords : r[1].path # r[2].path}}

\* Tree objects with nested directory entries, read recursively.
NextTrees ==
    \/ \E es \in TreePayloads :
           Cardinality(StoredTrees) < MaxTrees /\ HashObjectCmd(Tree(es))
    \/ \E i \in StoredTrees : ReadTreeCmd(Hex(i))

SpecTrees == Init /\ [][NextTrees]_vars

\* the reference files of SpecResolve, each before the files it may point to
RefFiles == <<HEAD, RefName("", "dev"), RefName("refs/tags", "dev"),
              RefName("refs/heads", "dev"), join("refs/heads", HexN(1, 3))>>
\* what a reference file may hold: an id as create_branch writes it, an id
\* as commit writes it, or "ref: " and the name of a later reference file
RefValues(i) ==
    {Hex(1), [Hex(2) EXCEPT !.nl = TRUE]}
    \cup {[RefFiles[j] EXCEPT !.pre = "ref: "] : j \in (i + 1)..(Len(RefFiles) - 1)}
\* the names resolved: references, and literal ids of 2, 3, 40 and 41 digits
ResolveNames ==
    {HEAD, RefName("", "dev"), RefName("refs/heads", "dev")}
    \cup {HexN(1, n) : n \in {2, 3, 40, 41}}

\* Name resolution over reference files of every kind.
NextResolve ==
    \/ \E i \in 1..Len(RefFiles) : \E value \in RefValues(i) : WriteRefFile(RefFiles[i], value)
    \/ \E ref_name \in ResolveNames : GetOidCmd(ref_name)

SpecResolve == Init /\ [][NextResolve]_vars

\* -------------------------------------------------------------- properties
OnDisk == {p \in Paths : wt[p] # 0}
IndexPaths == {index[i].path : i \in 1..Len(index)}
Count(s, p) == Cardinality({i \in 1..Len(s) : s[i].path = p})

\* the list s holds exactly the paths of S, in ascending order, each once
IsSortedListOf(s, S) ==
    /\ Range(s) = S
    /\ \A i, j \in 1..Len(s) : i < j => PathRank(s[i]) < PathRank(s[j])

\* the reference file HEAD names when it is symbolic, HEAD itself otherwise
HeadBranch == IF refs[HEAD].pre = "ref: " THEN [strip(refs[HEAD]) EXCEPT !.pre = ""] ELSE HEAD
\* what the reference file HEAD designates holds
HeadValue == IF HeadBranch \in DOMAIN refs THEN strip(refs[HeadBranch]) ELSE NoStr
HeadIsCommit == IsHex(HeadValue) /\ HeadValue.oid \in StoredCommits
\* the tree of the commit HEAD resolves to
HeadTree == objects[objects[HeadValue.oid].lines[1].s.oid].entries
HeadTreePaths == {HeadTree[i].path : i \in 1..Len(HeadTree)}

\* C1: after every successful commit the branch reference HEAD points to
\* holds the id of the new commit, resolving HEAD yields that id, and HEAD
\* is still a symbolic reference to the branch.
C1_CommitAdvancesBranch ==
    (last.op = "commit" /\ last.stage = "update_ref" /\ last.err = "") =>
        /\ refs[HEAD].pre = "ref: "
        /\ HeadBranch \in DOMAIN refs
        /\ HeadValue = Hex(last.ret)
        /\ get_local_master_hash(refs, HEAD, TRUE) = Hex(last.ret)

\* the paths and hashes of tree lines T are exactly the files on disk
WorkingTreeIs(T) ==
    /\ OnDisk = TreePaths(T)
    /\ \A i \in 1..Len(T) : sha1(<<>>, Blob(wt[T[i].path])) = T[i].sha1

\* a checkout that resolved a commit and read its tree, so that it pruned
\* and restored
CheckoutRan == last.op = "checkout" /\ last.stage \in {"restore_files", "restore_index", "update_ref"}

\* C2: when checkout has worked through the tree T of its commit, the files
\* of the working tree are exactly the paths of T, each with the content T
\* records, also when the prune step removed the directory of a path of T.
C2_CheckoutRestoresTree == CheckoutRan => WorkingTreeIs(last.tree)

\* the result status must give for the working tree, the index and the tree
\* of the commit HEAD resolves to
StatusOf(out) ==
    /\ IsSortedListOf(out.new_unstaged, OnDisk \ IndexPaths)
    /\ IsSortedListOf(out.deleted, IndexPaths \ OnDisk)
    /\ IsSortedListOf(out.modified_unstaged,
           {p \in OnDisk \cap IndexPaths :
               \E i \in 1..Len(index) :
                   index[i].path = p /\ index[i].sha1 # sha1(<<>>, Blob(wt[p]))})
    /\ IsSortedListOf(out.new_staged, (OnDisk \cap IndexPaths) \ HeadTreePaths)
    /\ IsSortedListOf(out.modified_staged,
           {p \in OnDisk \cap IndexPaths \cap HeadTreePaths :
               \E i \in 1..Len(index), k \in 1..Len(HeadTree) :
                   /\ index[i].path = p /\ HeadTree[k].path = p
                   /\ index[i].sha1 = sha1(<<>>, Blob(wt[p]))
                   /\ index[i].sha1 # HeadTree[k].sha1})

C4_CheckoutRebuildsIndex ==
    (last.op = "checkout" /\ last.stage = "update_ref") =>
        /\ IndexPaths = TreePaths(last.tree)
        /\ \A p \in IndexPaths : Count(index, p) = 1
        /\ \A i \in 1..Len(index) : \A k \in 1..Len(last.tree) :
               index[i].path = last.tree[k].path =>
                   index[i].mode = last.tree[k].mode /\ index[i].sha1 = last.tree[k].sha1
        /\ \A i, j \in 1..Len(index) :
               i < j => PathRank(index[i].path) <= PathRank(index[j].path)

\* C5: a checkout that comes to its HEAD update completes; the file HEAD
\* then holds the resolved commit id as a direct value, HEAD resolves to it,
\* and no other reference file is created or changed.
C5_CheckoutDetachesHead ==
    [][(last'.op = "checkout" /\ last'.stage = "update_ref") =>
          /\ last'.err = ""
          /\ refs' = [refs EXCEPT ![HEAD] = last'.oid]
          /\ get_local_master_hash(refs', HEAD, TRUE) = last'.oid]_vars

\* C6: checkout of the same commit a second time directly after the first
\* succeeds and changes neither the working tree nor the index.
C6_CheckoutIdempotent ==
    (CheckoutRan /\ last.rep) => (last.err = "" /\ ~last.changed)

\* C7: after add, the index holds exactly one entry for every file that was
\* added, its hash is the hash of the file's content on disk, and the blob
\* of that id is in the object store.
C7_AddStagesEachPath ==
    last.op = "add" =>
        \A p \in last.files :
            /\ Count(index, p) = 1
            /\ \A i \in 1..Len(index) :
                   index[i].path = p =>
                       /\ index[i].sha1 = sha1(<<>>, Blob(wt[p]))
                       /\ index[i].sha1 \in DOMAIN objects
                       /\ objects[index[i].sha1] = Blob(wt[p])

\* C8: the index never holds two entries with the same path, and its
\* entries are in ascending order of path.
C8_IndexSortedUnique ==
    \A i, j \in 1..Len(index) : i < j => PathRank(index[i].path) < PathRank(index[j].path)

ParentLines(i) == {k \in 1..Len(objects[i].lines) : objects[i].lines[k].key = "parent"}
TreeLinesOf(i) == {k \in 1..Len(objects[i].lines) : objects[i].lines[k].key = "tree"}
ParentOf(i) == objects[i].lines[CHOOSE k \in ParentLines(i) : TRUE].s

RECURSIVE ReachesRoot(_, _)
\* following parent lines from commit i reaches a commit without one
ReachesRoot(i, fuel) ==
    IF ParentLines(i) = {} THEN TRUE
    ELSE /\ fuel > 0
         /\ IsHex(ParentOf(i))
         /\ ParentOf(i).oid \in StoredCommits
         /\ ReachesRoot(ParentOf(i).oid, fuel - 1)

\* C9: every commit object has exactly one tree line and at most one parent
\* line; the commit just made has a parent line exactly when HEAD resolved
\* to a stored commit before the call, and the line names that commit; from
\* every commit the parent lines lead to a commit without a parent line.
C9_CommitParents ==
    /\ \A i \in StoredCommits :
           /\ Cardinality(TreeLinesOf(i)) = 1
           /\ Cardinality(ParentLines(i)) <= 1
           /\ ReachesRoot(i, Cardinality(StoredCommits))
    /\ (last.op = "commit" /\ last.stage = "update_ref") =>
           /\ ParentLines(last.ret) # {} <=>
                  (IsHex(last.oid) /\ last.oid.oid \in StoredCommits)
           /\ ParentLines(last.ret) # {} => ParentOf(last.ret) = last.oid

\* the update_ref call of the step that left the record l
URCalled(l) == l.op = "branch" \/ (l.op \in {"commit", "checkout"} /\ l.stage = "update_ref")
URRef(l) == IF l.op = "branch" THEN l.arg ELSE HEAD
URValue(l) == IF l.op = "branch" THEN l.oid
              ELSE IF l.op = "commit" THEN [Hex(l.ret) EXCEPT !.nl = TRUE]
              ELSE [l.oid EXCEPT !.pre = "ref: "]
URDeref(l) == l.op # "checkout"

RECURSIVE ChainEnd(_, _, _)
\* the reference file at the end of the chain of "ref: " indirections
ChainEnd(rf, ref, fuel) ==
    IF fuel > 0 /\ ref \in DOMAIN rf /\ strip(rf[ref]).pre = "ref: "
    THEN ChainEnd(rf, [strip(rf[ref]) EXCEPT !.pre = ""], fuel - 1)
    ELSE ref

\* C10: update_ref(ref, value, deref) writes value into one reference file,
\* with deref the file at the end of ref's chain of indirections (a file
\* that holds a direct id is that file), so that ref then resolves to value,
\* without deref the file ref itself; no other file is created or changed.
C10_UpdateRefWritesOneFile ==
    [][URCalled(last') =>
          LET file == IF URDeref(last')
                      THEN ChainEnd(refs, URRef(last'), Cardinality(DOMAIN refs))
                      ELSE URRef(last')
          IN /\ last'.err = ""
             /\ refs' = [r \in DOMAIN refs \cup {file} |->
                            IF r = file THEN URValue(last') ELSE refs[r]]
             /\ URDeref(last') =>
                    get_local_master_hash(refs', URRef(last'), TRUE) = strip(URValue(last'))]_vars

\* the three places get_oid looks for name, in its order
RefsToTry(name) == <<name, join("refs/tags", name), join("refs/heads", name)>>
FirstFound(name) ==
    RefsToTry(name)[CHOOSE i \in 1..3 :
                       /\ RefsToTry(name)[i] \in DOMAIN refs
                       /\ \A j \in 1..(i - 1) : RefsToTry(name)[j] \notin DOMAIN refs]

RECURSIVE LeavesOf(_, _)
\* the blob records reachable from tree id through nested directory records
LeavesOf(id, fuel) ==
    LET es == objects[id].entries
    IN {es[k] : k \in {k \in 1..Len(es) : ~S_ISDIR(es[k].mode)}}
       \cup (IF fuel = 0 THEN {}
             ELSE UNION {LeavesOf(es[k].sha1, fuel - 1) :
                            k \in {k \in 1..Len(es) : S_ISDIR(es[k].mode)}})

\* C12: read_tree(id, recursive) of a tree with nested directory records
\* returns every blob record reachable through the nested trees, and no two
\* of the entries it returns are equal or have the same path.
C12_ReadTreeRecursive ==
    (last.op = "read_tree" /\ last.err = "") =>
        /\ LeavesOf(last.arg.oid, Cardinality(StoredTrees)) \subseteq Range(last.tree)
        /\ \A i, j \in 1..Len(last.tree) :
               i < j => last.tree[i].path # last.tree[j].path

\* C13: after hash_object(data, type) has written an object, read_object of
\* the id it returned gives back exactly (type, data), also for empty data,
\* data with NUL bytes and spaces, and data of ten bytes or more.
C13_ObjectRoundTrip ==
    (call.op = "hash_object" /\ call.write) =>
        read_object_bytes(store, call.id) =
            [err |-> "", type |-> call.type, data |-> call.data]

\* a commit object whose data holds a NUL was written and reads back
C13_Witness ==
    /\ call.op = "hash_object" /\ call.write /\ call.wrote
    /\ call.type = "commit"
    /\ \E i \in 1..Len(call.data) : call.data[i] = NUL
    /\ read_object_bytes(store, call.id).data = call.data

\* C14: hash_object returns the id it returned before for the same type and
\* data; with write it leaves exactly one object under that id, holding the
\* type-tagged data, and does not write the object file when it exists;
\* without write it leaves the object store as it was; no other object
\* changes.
C14_HashObjectIdempotent ==
    [][call'.op = "hash_object" =>
          LET full == full_data(call'.data, call'.type)
          IN /\ full \in DOMAIN digests => call'.id = digests[full]
             /\ call'.id \in DOMAIN store => (~call'.wrote /\ store' = store)
             /\ ~call'.write => (~call'.wrote /\ store' = store)
             /\ call'.write =>
                    /\ DOMAIN store' = DOMAIN store \cup {call'.id}
                    /\ decompress(store'[call'.id]) = full
             /\ \A id \in DOMAIN store : store'[id] = store[id]]_vars

\* hash_object with write was called again for an object already stored
C14_Witness ==
    /\ call.op = "hash_object" /\ call.write /\ ~call.wrote
    /\ call.id \in DOMAIN store
    /\ Cardinality(DOMAIN store) = 1
    /\ Cardinality(DOMAIN digests) = 2

\* prefix is the beginning of id
IsPrefixOf(prefix, id) == Len(prefix) <= Len(id) /\ SubSeq(id, 1, Len(prefix)) = prefix

\* C18: find_object(prefix) with a prefix of 2 or more hex digits returns
\* the stored object whose id starts with prefix when there is exactly one,
\* fails with the ambiguity error when there are two or more, and fails with
\* the not-found error when there is none, also when no stored id has the
\* prefix's first two digits.
C18_FindObjectByPrefix ==
    (call.op = "find_object" /\ Len(call.prefix) >= 2) =>
        LET matches == {id \in DOMAIN store : IsPrefixOf(call.prefix, id)}
        IN /\ Cardinality(matches) = 1 => (call.err = "" /\ call.path \in matches)
           /\ Cardinality(matches) >= 2 => call.err = "ValueError: multiple objects"
           /\ matches = {} => call.err = "ValueError: not found"

\* C15: no step of add, commit, checkout or a reference update removes an
\* object from the store or changes a stored object, and every stored
\* object is kept under the hash of its type and content.
C15_ObjectsImmutable ==
    [][/\ \A i \in DOMAIN objects : i \in DOMAIN objects' /\ objects'[i] = objects[i]
       /\ \A i \in DOMAIN objects' : sha1(objects', objects'[i]) = i]_vars

\* a checkout that pruned the working tree and wrote the index, with blobs,
\* trees and commits in the store
C15_Witness ==
    /\ last.op = "checkout" /\ last.stage = "update_ref" /\ last.changed
    /\ {objects[i].type : i \in DOMAIN objects} = {"blob", "tree", "commit"}
    /\ Cardinality(StoredCommits) >= 2

\* C16: read_index after write_index(entries) returns entries, every field
\* of every entry and in the same order, for no entry, one and several and
\* for paths that end before, on and after a multiple of 8 bytes; every
\* record written has a length that is a multiple of 8 and ends with a NUL
\* after the path.
C16_IndexRoundTrip ==
    call.op = "write_index" =>
        /\ read_index_bytes(ifile) = [err |-> "", entries |-> call.entries]
        /\ \A i \in 1..Len(call.entries) :
               LET rec == pack_entry(call.entries[i])
               IN /\ Len(rec) % 8 = 0
                  /\ Len(rec) > 62 + Len(call.entries[i].path)
                  /\ \A k \in (62 + Len(call.entries[i].path) + 1)..Len(rec) : rec[k] = NUL

\* three entries were written, one of them with a path of 2 bytes, whose
\* record takes 8 NUL bytes
C16_Witness ==
    /\ call.op = "write_index" /\ Len(call.entries) = 3
    /\ Len(pack_entry(call.entries[2])) = 72
    /\ read_index_bytes(ifile).entries = call.entries

\* C17 as stated: a change of one byte of the index file makes read_index
\* fail on its checksum, and read_index returns the empty list only when
\* there is no index file.
C17_FlipOrAbsent ==
    LET r == read_index_bytes(ifile)
    IN /\ call.op = "flip" => r.err = "AssertionError"
       /\ (r.err = "" /\ r.entries = <<>>) => ~ifile.exists

\* C17 amended: a change of one byte of the index file makes read_index
\* fail on its checksum, and read_index returns the empty list only when
\* there is no index file or the file is the index of no entries that
\* write_index writes.
C17_FlipOrAbsentOrEmpty ==
    LET r == read_index_bytes(ifile)
    IN /\ call.op = "flip" => r.err = "AssertionError"
       /\ (r.err = "" /\ r.entries = <<>>) =>
              (~ifile.exists \/ ifile = write_index_bytes(<<>>))

\* a byte of the padding after the last path was changed
C17_Witness ==
    /\ call.op = "flip" /\ Len(call.entries) = 2
    /\ call.pos = Len(ifile.data)
    /\ read_index_bytes(ifile).err = "AssertionError"

\* C19: read_commit of a commit written by commit returns the tree id, the
\* parent id (none without a parent) and the message that were written, and
\* read_commit of an object of another type fails on its type.
C19_CommitRoundTrip ==
    /\ (last.op = "commit" /\ last.stage = "update_ref") =>
           LET r == read_commit(objects, Hex(last.ret))
               tree == sha1(objects, Tree(TreeEntries(read_index(index))))
           IN /\ r.err = ""
              /\ r.tree = Hex(tree)
              /\ r.parents = Line("", last.oid, 0)
              /\ <<r.message>> = MessageLines(last.message)
    /\ \A i \in DOMAIN objects :
           objects[i].type # "commit" => read_commit(objects, Hex(i)).err = "AssertionError"

\* the tree payloads that end in a record with fewer than 20 hash bytes
TruncatedTreeFiles == {TreeFile(n, k) : n \in {0, 1}, k \in 0..(DigestLen - 1)}

\* C20: read_tree fails when the payload of the tree ends in a record with
\* fewer than 20 hash bytes after its NUL, and no entry it returns has an id
\* of fewer than 20 bytes (40 hex digits).
C20_ReadTreeTruncated ==
    (call.op = "read_tree" /\ call.err # "AssertionError" /\ call.prefix \in DOMAIN store) =>
        /\ call.rdata \in TruncatedTreeFiles => call.err # ""
        /\ \A i \in 1..Len(call.entries) : Len(call.entries[i].sha1) = 2 * DigestLen

\* C21: add changes index entries only for the paths it is given: every
\* entry of another path is in the index after the call as it was before,
\* also when its file is no longer on disk.
C21_AddKeepsOtherEntries ==
    [][last'.op = "add" =>
          \A i \in 1..Len(index) :
              index[i].path \notin last'.files =>
                  \E j \in 1..Len(index') : index'[j] = index[i]]_vars

\* every file of the working tree is in the index with the hash of its
\* content, and the index has no other entry
AllAdded ==
    /\ IndexPaths = OnDisk
    /\ \A i \in 1..Len(index) : index[i].sha1 = sha1(<<>>, Blob(wt[index[i].path]))

\* C22: when every file of the working tree has been added and commit has
\* succeeded, status on that state reports all five sets empty, after the
\* first commit and after every later one.
C22_CleanAfterCommit ==
    (last.op = "commit" /\ last.stage = "update_ref" /\ last.err = "" /\ AllAdded) =>
        LET r == get_status(wt, index, objects, refs)
        IN r.err = "" /\ r.out = NoStatus

\* C23: read_tree of the tree write_tree made of the index returns one
\* entry for each index entry, in index order, with its mode, its path and
\* its hash, also for a path with a space in it.
C23_TreeRoundTrip ==
    LET ix == read_index_bytes(ifile).entries
    IN (/\ call.op = "read_tree" /\ call.prefix \in DOMAIN store
        /\ decompress(store[call.prefix]) = full_data(write_tree_bytes(ix), "tree")) =>
           /\ call.err = ""
           /\ call.entries = [i \in 1..Len(ix) |->
                                  [mode |-> ix[i].stat[7], path |-> ix[i].path,
                                   sha1 |-> hex(ix[i].sha1)]]

\* C24: checkout deletes and changes no ignored file: the working-tree file
\* with ".gitpie" in its path keeps its content, the objects stay as they
\* are, the index stays until restore_index writes it and the references
\* until update_ref writes one, and the directory of the ignored file is
\* not removed.
C24_CheckoutKeepsIgnored ==
    [][last'.op = "checkout" =>
          /\ wt[IgnoredFile] # 0 =>
                 (wt'[IgnoredFile] = wt[IgnoredFile] /\ DirOf(IgnoredFile) \in wdirs')
          /\ objects' = objects
          /\ last'.stage # "update_ref" => (index' = index /\ refs' = refs)
          /\ (last'.stage = "update_ref" /\ last'.err # "") => refs' = refs]_vars

\* a checkout that removed a file from a directory that holds an ignored
\* file, the ignored file and the directory still there
C24_Witness ==
    /\ last.op = "checkout" /\ last.stage = "update_ref" /\ last.changed
    /\ wt[IgnoredFile] # 0 /\ wt["d/b"] = 0 /\ "d" \in wdirs

\* C25: a checkout whose name does not resolve, or whose commit or tree is
\* missing, damaged (a commit payload of fewer than six lines, a tree record
\* whose digest is cut off) or of another type, ends with an error before
\* empty_dir and leaves working tree, index and references as they were;
\* and a checkout that needs a blob which is missing or is not a blob ends
\* with an error in restore_files or restore_index.
C25_CheckoutAborts ==
    [][last'.op = "checkout" =>
          LET o == get_oid(refs, last'.arg)
              c == read_object(objects, o.oid)
              commit_bad == c.err # "" \/ c.obj.type # "commit" \/ Len(c.obj.lines) < 6
              t == IF commit_bad THEN [err |-> "NotFound", obj |-> Blob(0)]
                   ELSE read_object(objects, c.obj.lines[1].s)
              tree_bad == \/ t.err # ""
                          \/ t.obj.type # "tree"
                          \/ \E i \in 1..Len(t.obj.entries) : t.obj.entries[i].sha1 = 0
              T == t.obj.entries
              needed == {i \in 1..Len(T) :
                            \/ wt[T[i].path] = 0
                            \/ sha1(<<>>, Blob(wt[T[i].path])) # T[i].sha1}
              blob_bad == \E i \in needed :
                              LET b == read_object(objects, Hex(T[i].sha1))
                              IN b.err # "" \/ b.obj.type # "blob"
          IN IF o.err # "" \/ commit_bad \/ tree_bad
             THEN /\ last'.err # ""
                  /\ last'.stage \in {"get_oid", "read_commit", "read_tree"}
                  /\ wt' = wt /\ wdirs' = wdirs /\ index' = index /\ refs' = refs
             ELSE blob_bad =>
                      (last'.err # "" /\ last'.stage \in {"restore_files", "restore_index"})]_vars

\* C26: creating a tag or a branch of a name not yet used raises no error,
\* the name is then among the names iter_tag_names or iter_branch_names
\* lists and get_oid of the name gives the id; creating a branch of a name
\* in use with another id makes get_oid of the name give that id.
C26_CreateTagBranch ==
    [][last'.op \in {"tag", "branch"} =>
          LET n == RefName("", last'.arg.base)
              r == get_oid(refs', n)
              listed == IF last'.op = "tag" THEN iter_tag_names(refs')
                        ELSE iter_branch_names(refs')
          IN /\ last'.arg \notin DOMAIN refs =>
                    (last'.err = "" /\ last'.arg.base \in listed)
             /\ r.err = "" /\ r.oid = last'.oid]_vars

\* the paths of a list of index entries
PathsOf(entries) == {entries[i].path : i \in 1..Len(entries)}

\* C27: add is not atomic on the index file.  Whatever the interleaving,
\* every blob that an invocation has hashed is in the object store under
\* its id with its content, and so is the blob of every index entry; and
\* the write of an invocation replaces the index by its own list, so that
\* the index afterwards holds a path of the other invocation only if that
\* path was in the index this invocation read.
C27_AddNotAtomic ==
    /\ [](\A p \in DOMAIN adds :
             adds[p].pc \in {"hashed", "done"} =>
                 \A i \in 1..Len(adds[p].entries) :
                     adds[p].entries[i].path \in Range(adds[p].files) =>
                         LET sha == adds[p].entries[i].sha1
                         IN sha \in DOMAIN objects /\ objects[sha] = Blob(sha))
    /\ [](\A i \in 1..Len(index) :
             /\ index[i].sha1 \in DOMAIN objects
             /\ sha1(<<>>, objects[index[i].sha1]) = index[i].sha1)
    /\ [][\A p \in DOMAIN adds :
             (adds[p].pc = "hashed" /\ adds'[p].pc = "done") =>
                 /\ PathsOf(index') = PathsOf(adds[p].entries)
                 /\ objects' = objects]_vars

\* both invocations have read the index before either wrote it, on
\* different paths; both are finished, the index lacks the entry of one of
\* them, and the blobs of both are stored
C27_Witness ==
    /\ adds[1].pc = "done" /\ adds[2].pc = "done"
    /\ adds[1].files # <<>> /\ adds[2].files # <<>>
    /\ Range(adds[1].files) \cap Range(adds[2].files) = {}
    /\ Range(adds[1].files) \cap PathsOf(adds[2].entries) = {}
    /\ Range(adds[2].files) \cap PathsOf(adds[1].entries) = {}
    /\ \E p \in DOMAIN adds : Range(adds[p].files) \cap PathsOf(index) = {}
    /\ \A p \in DOMAIN adds : \A i \in 1..Len(adds[p].entries) :
           adds[p].entries[i].sha1 \in DOMAIN objects
====
